---- MODULE Spec2Model ----
(***************************************************************************)
(* Model of a11y-pilot's fix orchestrator (src/src/copilot-bridge.js):      *)
(* the availability gate, the per-file strategy (batched invocation with    *)
(* per-issue fallback, or one call per issue), the subprocess invocation    *)
(* with its three completion sources (error event, close event, scheduled   *)
(* timeout) feeding one promise, and the fixed/failed accounting.           *)
(*                                                                         *)
(* Control is the single JavaScript thread: it is suspended at one await at *)
(* a time (pc names the await).  Event-loop callbacks run only while the    *)
(* awaited promise is pending; once it is settled the continuation runs     *)
(* before any further callback (microtasks precede macrotasks).            *)
(*                                                                         *)
(* The environment decides the fate of a subprocess when it is spawned: it  *)
(* cannot be spawned, it ends and is closed before its deadline, or it is   *)
(* still running at its deadline (it ends, if ever, after the signal).      *)
(***************************************************************************)
EXTENDS Integers, Sequences, FiniteSets, TLC

\* ---------------------------------------------------------------- bounds
\* issues of one run, over all the files of the map
MaxIssues == 3
\* subprocesses of one run that are still running at their deadline
MaxHangs == 1
\* subprocesses of one run that cannot be spawned
MaxSpawnErrors == 1

\* ---------------------------------------------------------------- state
VARIABLES
  issuesByFile,   \* issuesByFile[f] = number of issues of the f-th map entry
  dryRun,         \* options.dryRun
  oneByOne,       \* options.oneByOne
  installed,      \* environment: resolveCopilotPath() finds a binary
  copilotPath,    \* _copilotPath cache: "undefined" | "null" | "path"
  pc,             \* "start" | "probe" | "file" | "batch" | "fallback" | "single" | "done"
  fileIdx,        \* position of the for..of loop of autoFixAll
  issueIdx,       \* position of the for..of loop over the file's issues
  fixed,          \* local counter of fixFileIssues / fixBatchWithCopilot
  failed,         \* local counter of fixFileIssues / fixBatchWithCopilot
  totalFixed,     \* autoFixAll accumulator
  totalFailed,    \* autoFixAll accumulator
  fileResult,     \* the {fixed, failed} records returned by fixFileIssues, in order
  returned,       \* the {totalFixed, totalFailed} record returned by autoFixAll
  invs,           \* every call of isCopilotCLIAvailable / fixWithCopilot, in call order
  status,         \* printAutoFixStatus calls: status[f][k] = sequence of statuses
  cntFixed,       \* cntFixed[f][k]  = times issue k of file f was added to a fixed count
  cntFailed,      \* cntFailed[f][k] = times issue k of file f was added to a failed count
  command,        \* the command of the CLI run: "scan" | "fix" | "none"
  ruleIds,        \* the --rules filter: [given |-> BOOLEAN, ids |-> set of rule ids]
  files,          \* the files on disk that walkDir finds, in its order
  cpc,            \* "idle" | "start" | "walk" | "analyse" | "report" | "autofix" | "exit"
  scanned,        \* the Issue lists analyzeFile returned, in call order
  exitCode,       \* argument of process.exit, -1 while the process runs
  usageError,     \* printError('No valid rules specified...') was called
  discovered,     \* walkDir was called
  markup,         \* the source text being parsed, as its sequence of tokens
  epos,           \* parseHTML: number of parser events delivered so far
  currentIndex,   \* parseHTML: the position cursor
  tagStack,       \* parseHTML: the open elements
  outElements     \* parseHTML: the `elements` array it returns

vars == <<issuesByFile, dryRun, oneByOne, installed, copilotPath, pc, fileIdx,
          issueIdx, fixed, failed, totalFixed, totalFailed, fileResult,
          returned, invs, status, cntFixed, cntFailed, command, ruleIds,
          files, cpc, scanned, exitCode, usageError, discovered, markup, epos,
          currentIndex, tagStack, outElements>>

ctl == <<fileIdx, issueIdx, fixed, failed, totalFixed, totalFailed, fileResult,
         returned, status, cntFixed, cntFailed>>

\* state of the scan phase (the CLI up to its call of autoFixAll)
scanVars == <<command, ruleIds, files, cpc, scanned, exitCode, usageError,
              discovered>>

\* state of the hypertext backend (parseHTML)
htmlVars == <<markup, epos, currentIndex, tagStack, outElements>>

inputs == <<issuesByFile, dryRun, oneByOne, installed, scanVars, htmlVars>>

\* ---------------------------------------------------------------- helpers
RECURSIVE SumTo(_, _)
SumTo(s, n) == IF n = 0 THEN 0 ELSE s[n] + SumTo(s, n - 1)

NumFiles == Len(issuesByFile)
TotalIssues == SumTo(issuesByFile, NumFiles)
Issues(f) == 1..issuesByFile[f]

Pending == [success |-> FALSE, error |-> "pending"]
Success == [success |-> TRUE, error |-> "none"]
Failure(msg) == [success |-> FALSE, error |-> msg]

\* resolveCopilotPath(): which/where, then the well-known install locations
resolveCopilotPath == IF installed THEN "path" ELSE "null"

\* getCopilotPath(): resolve once, then answer from the cache
getCopilotPath == IF copilotPath = "undefined" THEN resolveCopilotPath ELSE copilotPath

\* new Promise(resolve => ...): the first resolve() settles, later calls are ignored
ResolveOverwrite(inv, res) == [inv EXCEPT !.settled = TRUE, !.result = res]

Resolve(inv, res) ==
  IF inv.settled THEN inv ELSE [inv EXCEPT !.settled = TRUE, !.result = res]

\* a call that returns without spawning (its promise is already settled)
Returned(kind, f, k, res) ==
  [kind |-> kind, file |-> f, issue |-> k, proc |-> "none", fate |-> "none",
   signalled |-> FALSE, errorFired |-> FALSE, closeFired |-> FALSE,
   timer |-> "none", settled |-> TRUE, result |-> res]

\* a spawn with no deadline armed
SpawnedUntimed(kind, f, k, fate) ==
  [kind |-> kind, file |-> f, issue |-> k,
   proc |-> IF fate = "spawnfail" THEN "spawnfail" ELSE "alive", fate |-> fate,
   signalled |-> FALSE, errorFired |-> FALSE, closeFired |-> FALSE,
   timer |-> "none", settled |-> FALSE, result |-> Pending]

\* spawn(copilotPath, args, {timeout}) followed by the three registrations
Spawned(kind, f, k, fate) ==
  [kind |-> kind, file |-> f, issue |-> k,
   proc |-> IF fate = "spawnfail" THEN "spawnfail" ELSE "alive", fate |-> fate,
   signalled |-> FALSE, errorFired |-> FALSE, closeFired |-> FALSE,
   timer |-> "armed", settled |-> FALSE, result |-> Pending]

\* isCopilotCLIAvailable(): false without a path, else the version probe
isCopilotCLIAvailable(path, fate) ==
  IF path = "null" THEN Returned("probe", 0, 0, Failure("nobinary"))
  ELSE Spawned("probe", 0, 0, fate)

\* fixWithCopilot(filePath, issue, options); k = 0 is the batched instruction
fixWithCopilot(f, k, fate) ==
  LET kind == IF k = 0 THEN "batch" ELSE "issue" IN
  IF dryRun THEN Returned(kind, f, k, Success)
  ELSE IF getCopilotPath = "null" THEN Returned(kind, f, k, Failure("nobinary"))
  ELSE Spawned(kind, f, k, fate)

\* the fates the environment may still give to a subprocess spawned now
Count(fate) == Cardinality({i \in 1..Len(invs) : invs[i].fate = fate})
Fates ==
  {"exits"} \cup (IF Count("hangs") < MaxHangs THEN {"hangs"} ELSE {})
            \cup (IF Count("spawnfail") < MaxSpawnErrors THEN {"spawnfail"} ELSE {})

Last == invs[Len(invs)]
Awaiting == pc \in {"probe", "batch", "fallback", "single"}
\* the awaited promise is settled: the continuation is the next thing to run
Ready == Awaiting /\ Last.settled
\* control is suspended on a pending promise: event-loop callbacks may run
EventLoopFree == Awaiting /\ ~Last.settled

\* ---------------------------------------------------------------- Init
\* the scan phase is over: Spec starts at the call of autoFixAll
ScanIdle ==
  /\ command = "none"
  /\ ruleIds = [given |-> FALSE, ids |-> {}]
  /\ files = <<>>
  /\ cpc = "idle"
  /\ scanned = <<>>
  /\ exitCode = -1
  /\ usageError = FALSE
  /\ discovered = FALSE

\* no file is being parsed
HtmlIdle ==
  /\ markup = <<>>
  /\ epos = 0
  /\ currentIndex = 0
  /\ tagStack = <<>>
  /\ outElements = <<>>

Init ==
  /\ issuesByFile \in UNION {[1..n -> 1..MaxIssues] : n \in 1..MaxIssues}
  /\ SumTo(issuesByFile, Len(issuesByFile)) <= MaxIssues
  /\ dryRun \in BOOLEAN
  /\ oneByOne \in BOOLEAN
  /\ installed \in BOOLEAN
  /\ copilotPath = "undefined"
  /\ pc = "start"
  /\ fileIdx = 0
  /\ issueIdx = 0
  /\ fixed = 0
  /\ failed = 0
  /\ totalFixed = 0
  /\ totalFailed = 0
  /\ fileResult = <<>>
  /\ returned = [totalFixed |-> 0, totalFailed |-> 0]
  /\ invs = <<>>
  /\ status = [f \in 1..NumFiles |-> [k \in Issues(f) |-> <<>>]]
  /\ cntFixed = [f \in 1..NumFiles |-> [k \in Issues(f) |-> 0]]
  /\ cntFailed = [f \in 1..NumFiles |-> [k \in Issues(f) |-> 0]]
  /\ ScanIdle
  /\ HtmlIdle

\* ---------------------------------------------------------------- decisions
\* autoFixAll: `if (!available) return {0, 0}`
AvailableAlways(res) == TRUE

Available(res) == res.success

\* fixFileIssues: `issues.length > 1 && !options.oneByOne`
UseBatchAlways(n) == n >= 1 /\ ~oneByOne

UseBatch(n) == n > 1 /\ ~oneByOne

\* fixBatchWithCopilot: `return { fixed: issues.length, failed: 0 }`
BatchAllButOne(n) == [fixed |-> n - 1, failed |-> 0]

BatchSuccessResult(n) == [fixed |-> n, failed |-> 0]

\* `for (const issue of issues)`: the loop goes on while issues remain,
\* whatever the result of the invocation just judged
StopOnFailure(k, n, res) == k < n /\ res.success

MoreIssues(k, n, res) == k < n

\* the fallback of fixBatchWithCopilot starts its own counters: `let fixed = 0;
\* let failed = 0`
FallbackCountsBatch == [fixed |-> 0, failed |-> 1]

FallbackCounters == [fixed |-> 0, failed |-> 0]

\* the fallback loop of fixBatchWithCopilot starts from the first issue again
FallbackSkipsFirst(n) == IF n > 1 THEN 2 ELSE 1

FallbackFirst(n) == 1

\* close handler: `code === 0` is success, otherwise the failure carries
\* `stderr || stdout || "Copilot CLI exited with code N"` (one kind, "exit");
\* the probe resolves `code === 0`
CloseResult(kind, code) ==
  IF code = 0 THEN Success
  ELSE IF kind = "probe" THEN Failure("unavailable")
  ELSE Failure("exit")

\* error handler: "Failed to spawn copilot: ..."; the probe resolves false
ErrorResult(kind) ==
  IF kind = "probe" THEN Failure("unavailable") ELSE Failure("spawn")

\* timeout callback: "Copilot CLI timed out (120s)"; the probe resolves false
TimeoutAsExit(kind) ==
  IF kind = "probe" THEN Failure("unavailable") ELSE Failure("exit")

TimeoutResult(kind) ==
  IF kind = "probe" THEN Failure("unavailable") ELSE Failure("timeout")

\* proc.kill('SIGTERM') inside try/catch: a live subprocess receives the signal
KillNothing(inv) == inv

Kill(inv) == [inv EXCEPT !.signalled = @ \/ inv.proc = "alive"]

\* printAutoFixStatus(relPath, issue, s)
AddStatus(st, f, k, s) == [st EXCEPT ![f][k] = Append(@, s)]
AddStatusAll(st, f, s) ==
  [st EXCEPT ![f] = [k \in DOMAIN st[f] |-> Append(st[f][k], s)]]

Bump(cnt, f, k) == [cnt EXCEPT ![f][k] = @ + 1]
BumpAll(cnt, f) == [cnt EXCEPT ![f] = [k \in DOMAIN cnt[f] |-> cnt[f][k] + 1]]

\* fixFileIssues returns {fixed, failed}; autoFixAll adds them to its totals
\* and its for..of loop moves to the next map entry
ReturnFile(fx, fl) ==
  /\ fileResult' = Append(fileResult, [fixed |-> fx, failed |-> fl])
  /\ totalFixed' = totalFixed + fx
  /\ totalFailed' = totalFailed + fl
  /\ fileIdx' = fileIdx + 1
  /\ pc' = "file"

\* the commands `scan --auto-fix` and `fix` end the process with
\* process.exit(totalFailed > 0 ? 1 : 0) on the record autoFixAll returned
ExitAlwaysSuccess(totals) == 0

processExit(totals) == IF totals.totalFailed > 0 THEN 1 ELSE 0

\* ---------------------------------------------------------------- control
\* autoFixAll up to `await isCopilotCLIAvailable()`
autoFixAll ==
  /\ pc = "start"
  /\ copilotPath' = getCopilotPath
  /\ \E fate \in Fates :
       invs' = Append(invs, isCopilotCLIAvailable(getCopilotPath, fate))
  /\ pc' = "probe"
  /\ UNCHANGED <<inputs, ctl>>

\* autoFixAll after the probe: the availability gate
AwaitAvailable ==
  /\ pc = "probe"
  /\ Last.settled
  /\ IF ~Available(Last.result)
     THEN /\ returned' = [totalFixed |-> 0, totalFailed |-> 0]
          /\ pc' = "done"
          /\ UNCHANGED <<fileIdx, totalFixed, totalFailed>>
     ELSE /\ totalFixed' = 0
          /\ totalFailed' = 0
          /\ fileIdx' = 1
          /\ pc' = "file"
          /\ UNCHANGED returned
  /\ UNCHANGED <<inputs, copilotPath, issueIdx, fixed, failed, fileResult,
                 invs, status, cntFixed, cntFailed>>

\* head of autoFixAll's loop: the next fixFileIssues call up to its first
\* await, or the summary and the return when the map is exhausted
fixFileIssues ==
  /\ pc = "file"
  /\ IF fileIdx > NumFiles
     THEN /\ returned' = [totalFixed |-> totalFixed, totalFailed |-> totalFailed]
          /\ pc' = "done"
          /\ UNCHANGED <<fileIdx, issueIdx, fixed, failed, totalFixed,
                         totalFailed, fileResult, invs, status, cntFixed,
                         cntFailed>>
     ELSE LET f == fileIdx
              n == issuesByFile[f]
          IN  IF UseBatch(n)
              THEN IF dryRun
                   THEN /\ status' = AddStatusAll(status, f, "start")
                        /\ cntFixed' = BumpAll(cntFixed, f)
                        /\ ReturnFile(n, 0)
                        /\ UNCHANGED <<issueIdx, fixed, failed, returned, invs,
                                       cntFailed>>
                   ELSE /\ status' = AddStatusAll(status, f, "start")
                        /\ \E fate \in Fates :
                             invs' = Append(invs, fixWithCopilot(f, 0, fate))
                        /\ pc' = "batch"
                        /\ UNCHANGED <<fileIdx, issueIdx, fixed, failed,
                                       totalFixed, totalFailed, fileResult,
                                       returned, cntFixed, cntFailed>>
              ELSE /\ fixed' = 0
                   /\ failed' = 0
                   /\ IF n = 0
                      THEN /\ ReturnFile(0, 0)
                           /\ UNCHANGED <<issueIdx, returned, invs, status,
                                          cntFixed, cntFailed>>
                      ELSE /\ issueIdx' = 1
                           /\ status' = AddStatus(status, f, 1, "start")
                           /\ \E fate \in Fates :
                                invs' = Append(invs, fixWithCopilot(f, 1, fate))
                           /\ pc' = "single"
                           /\ UNCHANGED <<fileIdx, totalFixed, totalFailed,
                                          fileResult, returned, cntFixed,
                                          cntFailed>>
  /\ UNCHANGED <<inputs, copilotPath>>

\* fixBatchWithCopilot after `await fixWithCopilot(batch)`
AwaitBatch ==
  /\ pc = "batch"
  /\ Last.settled
  /\ LET f == fileIdx
         n == issuesByFile[f]
     IN  IF Last.result.success
         THEN /\ status' = AddStatusAll(status, f, "success")
              /\ cntFixed' = BumpAll(cntFixed, f)
              /\ ReturnFile(BatchSuccessResult(n).fixed, BatchSuccessResult(n).failed)
              /\ UNCHANGED <<issueIdx, fixed, failed, returned, invs, cntFailed>>
         ELSE /\ fixed' = FallbackCounters.fixed
              /\ failed' = FallbackCounters.failed
              /\ issueIdx' = FallbackFirst(n)
              /\ \E fate \in Fates :
                   invs' = Append(invs, fixWithCopilot(f, FallbackFirst(n), fate))
              /\ pc' = "fallback"
              /\ UNCHANGED <<fileIdx, totalFixed, totalFailed, fileResult,
                             returned, status, cntFixed, cntFailed>>
  /\ UNCHANGED <<inputs, copilotPath>>

\* one turn of a per-issue loop after `await fixWithCopilot(issue)`: judge the
\* result, count it, then call for the next issue or return the counts
JudgeIssue(await, printsStart) ==
  /\ pc = await
  /\ Last.settled
  /\ LET f == fileIdx
         k == issueIdx
         n == issuesByFile[f]
         res == Last.result
         fx == IF res.success THEN fixed + 1 ELSE fixed
         fl == IF res.success THEN failed ELSE failed + 1
         judged == AddStatus(status, f, k, IF res.success THEN "success" ELSE "error")
     IN  /\ fixed' = fx
         /\ failed' = fl
         /\ cntFixed' = IF res.success THEN Bump(cntFixed, f, k) ELSE cntFixed
         /\ cntFailed' = IF res.success THEN cntFailed ELSE Bump(cntFailed, f, k)
         /\ IF MoreIssues(k, n, res)
            THEN /\ issueIdx' = k + 1
                 /\ status' = IF printsStart
                              THEN AddStatus(judged, f, k + 1, "start")
                              ELSE judged
                 /\ \E fate \in Fates :
                      invs' = Append(invs, fixWithCopilot(f, k + 1, fate))
                 /\ UNCHANGED <<pc, fileIdx, totalFixed, totalFailed, fileResult>>
            ELSE /\ status' = judged
                 /\ ReturnFile(fx, fl)
                 /\ UNCHANGED <<issueIdx, invs>>
  /\ UNCHANGED <<inputs, copilotPath, returned>>

\* the fallback loop of fixBatchWithCopilot
AwaitFallback == JudgeIssue("fallback", FALSE)

\* the loop of fixFileIssues
AwaitSingle == JudgeIssue("single", TRUE)

\* ---------------------------------------------------------------- events
\* the subprocess ends: on its own before the deadline, or after the signal
ProcExit(i) ==
  /\ pc # "done"
  /\ invs[i].proc = "alive"
  /\ invs[i].fate = "exits" \/ invs[i].signalled
  /\ invs' = [invs EXCEPT ![i] = [@ EXCEPT !.proc = "exited"]]
  /\ UNCHANGED <<inputs, copilotPath, pc, ctl>>

\* proc.on('error', ...): the subprocess could not be spawned
OnError(i) ==
  /\ EventLoopFree
  /\ invs[i].proc = "spawnfail"
  /\ ~invs[i].errorFired
  /\ invs' = [invs EXCEPT ![i] =
        Resolve([@ EXCEPT !.errorFired = TRUE], ErrorResult(invs[i].kind))]
  /\ UNCHANGED <<inputs, copilotPath, pc, ctl>>

\* proc.on('close', code => ...): after the exit, with its status (zero or
\* not), or after the error event of a failed spawn (a negative code)
OnClose(i) ==
  /\ EventLoopFree
  /\ ~invs[i].closeFired
  /\ \/ invs[i].proc = "exited"
     \/ invs[i].proc = "spawnfail" /\ invs[i].errorFired
  /\ \E code \in IF invs[i].proc = "exited" THEN {0, 1} ELSE {1} :
       invs' = [invs EXCEPT ![i] =
          Resolve([@ EXCEPT !.closeFired = TRUE], CloseResult(invs[i].kind, code))]
  /\ UNCHANGED <<inputs, copilotPath, pc, ctl>>

\* the setTimeout callback (and spawn's own timeout option, armed just before
\* it with the same delay): signal the subprocess, then resolve as timed out.
\* Timers fire in the order they were armed.  The deadline comes after the
\* close of a subprocess that ends in time and after the error of a failed
\* spawn, so only a subprocess fated to hang is found unsettled.
OnTimeout(i) ==
  /\ EventLoopFree
  /\ invs[i].timer = "armed"
  /\ \A j \in 1..(i - 1) : invs[j].timer # "armed"
  /\ invs[i].settled \/ invs[i].fate = "hangs"
  /\ invs' = [invs EXCEPT ![i] =
        Resolve(Kill([@ EXCEPT !.timer = "fired"]), TimeoutResult(invs[i].kind))]
  /\ UNCHANGED <<inputs, copilotPath, pc, ctl>>

Control ==
  \/ autoFixAll
  \/ AwaitAvailable
  \/ fixFileIssues
  \/ AwaitBatch
  \/ AwaitFallback
  \/ AwaitSingle

Next ==
  \/ autoFixAll
  \/ AwaitAvailable
  \/ fixFileIssues
  \/ AwaitBatch
  \/ AwaitFallback
  \/ AwaitSingle
  \/ \E i \in 1..Len(invs) : ProcExit(i)
  \/ \E i \in 1..Len(invs) : OnError(i)
  \/ \E i \in 1..Len(invs) : OnClose(i)
  \/ \E i \in 1..Len(invs) : OnTimeout(i)

Spec == Init /\ [][Next]_vars

\* Scheduling of the runtime: a ready continuation runs, a pending event is
\* delivered, an armed timer fires.  Nothing makes a subprocess exit.
SpecFair ==
  /\ Spec
  /\ WF_vars(Control)
  /\ WF_vars(\E i \in 1..Len(invs) : ProcExit(i) /\ invs[i].fate = "exits")
  /\ WF_vars(\E i \in 1..Len(invs) : OnError(i))
  /\ WF_vars(\E i \in 1..Len(invs) : OnClose(i))
  /\ WF_vars(\E i \in 1..Len(invs) : OnTimeout(i))

\* ---------------------------------------------------------------- properties
\* the probe has settled and let the fix phase through
GatePassed == Len(invs) >= 1 /\ invs[1].settled /\ invs[1].result.success
\* the probe has settled and closed the gate
GateFailed == Len(invs) >= 1 /\ invs[1].settled /\ ~invs[1].result.success

\* the calls made for file f, in call order, and the issues they carried
CallsOf(f) == LET Of(r) == r.file = f IN SelectSeq(invs, Of)
IssueSeq(f) == [j \in 1..Len(CallsOf(f)) |-> CallsOf(f)[j].issue]
UpTo(a, b) == [j \in 1..(b - a + 1) |-> a + j - 1]
IsPrefix(s, t) == Len(s) <= Len(t) /\ \A j \in 1..Len(s) : s[j] = t[j]
Completed(f) == f <= Len(fileResult)
BatchOf(f) == {i \in 1..Len(invs) : invs[i].file = f /\ invs[i].kind = "batch"}
IndividualOf(f) == {i \in 1..Len(invs) : invs[i].file = f /\ invs[i].kind = "issue"}
RECURSIVE SumCnt(_, _, _)
SumCnt(cnt, f, k) == IF k = 0 THEN 0 ELSE cnt[f][k] + SumCnt(cnt, f, k - 1)
RECURSIVE SumAll(_, _)
SumAll(cnt, f) ==
  IF f = 0 THEN 0 ELSE SumCnt(cnt, f, issuesByFile[f]) + SumAll(cnt, f - 1)

\* C1: when autoFixAll returns after the gate let it through, every issue of
\* every file has been counted exactly once, as fixed or as failed, and
\* totalFixed + totalFailed is the number of issues; no issue is ever
\* counted twice on the way.
C1_CountedExactlyOnce ==
  /\ \A f \in 1..NumFiles : \A k \in Issues(f) : cntFixed[f][k] + cntFailed[f][k] <= 1
  /\ (pc = "done" /\ GatePassed) =>
       /\ \A f \in 1..NumFiles : \A k \in Issues(f) :
            cntFixed[f][k] + cntFailed[f][k] = 1
       /\ returned.totalFixed = SumAll(cntFixed, NumFiles)
       /\ returned.totalFailed = SumAll(cntFailed, NumFiles)
       /\ returned.totalFixed + returned.totalFailed = TotalIssues

C1_Witness ==
  /\ pc = "done"
  /\ GatePassed
  /\ ~dryRun
  /\ returned.totalFixed > 0
  /\ returned.totalFailed > 0
  /\ \E i \in 1..Len(invs) : invs[i].kind = "batch" /\ ~invs[i].result.success

\* C2: for a file with n > 1 issues and batching enabled whose batched
\* invocation failed (non-zero exit, spawn error or timeout), the calls made
\* for the file are the batch and then the issues 1..n in list order, each
\* spawning its own subprocess, never more; once the file is done all n were
\* made and its fixed and failed counts are the numbers of individual
\* successes and failures.
C2_FallbackOnePerIssue ==
  \A f \in 1..NumFiles :
    (\E b \in BatchOf(f) : invs[b].settled /\ ~invs[b].result.success /\ pc # "batch")
      => /\ issuesByFile[f] > 1 /\ ~oneByOne
         /\ IsPrefix(IssueSeq(f), UpTo(0, issuesByFile[f]))
         /\ Len(IssueSeq(f)) >= 2
         /\ \A i \in IndividualOf(f) : invs[i].proc # "none"
         /\ Completed(f) =>
              /\ IssueSeq(f) = UpTo(0, issuesByFile[f])
              /\ fileResult[f].fixed =
                   Cardinality({i \in IndividualOf(f) : invs[i].result.success})
              /\ fileResult[f].failed =
                   Cardinality({i \in IndividualOf(f) : ~invs[i].result.success})

C2_Witness ==
  \E f \in 1..NumFiles :
    /\ Completed(f)
    /\ \E b \in BatchOf(f) : invs[b].result.error = "exit"
    /\ fileResult[f].fixed = 1
    /\ fileResult[f].failed = issuesByFile[f] - 1

\* C3: for a file with n > 1 issues and batching enabled whose batched
\* invocation resolved with exit status zero, that invocation is the only
\* call ever made for the file, and the file returns fixed = n, failed = 0
\* with every issue counted as fixed.
C3_BatchSuccess ==
  \A f \in 1..NumFiles :
    (\E b \in BatchOf(f) : invs[b].settled /\ invs[b].result.success)
      => /\ issuesByFile[f] > 1 /\ ~oneByOne
         /\ IssueSeq(f) = <<0>>
         /\ Completed(f) =>
              /\ fileResult[f] = [fixed |-> issuesByFile[f], failed |-> 0]
              /\ \A k \in Issues(f) : cntFixed[f][k] = 1 /\ cntFailed[f][k] = 0

C3_Witness ==
  /\ pc = "done"
  /\ \E f \in 1..NumFiles :
       /\ issuesByFile[f] = 3
       /\ \E b \in BatchOf(f) : invs[b].closeFired /\ invs[b].result.success

\* C4: for a file with exactly one issue, or with batching disabled, no
\* batched call is ever made: fixWithCopilot is called once per issue in list
\* order (and outside dry-run each call spawns one subprocess).
C4_NoBatch ==
  \A f \in 1..NumFiles :
    (issuesByFile[f] = 1 \/ oneByOne)
      => /\ BatchOf(f) = {}
         /\ IsPrefix(IssueSeq(f), UpTo(1, issuesByFile[f]))
         /\ Completed(f) => IssueSeq(f) = UpTo(1, issuesByFile[f])
         /\ ~dryRun => \A i \in IndividualOf(f) : invs[i].proc # "none"

C4_Witness ==
  /\ pc = "done"
  /\ ~dryRun
  /\ \E f \in 1..NumFiles :
       /\ issuesByFile[f] = 1
       /\ ~oneByOne
       /\ Completed(f)
       /\ Len(CallsOf(f)) = 1
  /\ \E f \in 1..NumFiles : issuesByFile[f] > 1 /\ BatchOf(f) # {}

\* C5: when the availability gate fails (no executable, probe exits non-zero,
\* probe spawn error, probe timeout) the fix phase returns totalFixed = 0 and
\* totalFailed = 0, and the probe is the only call ever made: no fix
\* invocation for any issue of any file.
C5_GateAborts ==
  GateFailed =>
    /\ pc \in {"probe", "done"}
    /\ Len(invs) = 1
    /\ totalFixed = 0 /\ totalFailed = 0
    /\ fileResult = <<>>
    /\ \A f \in 1..NumFiles : \A k \in Issues(f) :
         cntFixed[f][k] = 0 /\ cntFailed[f][k] = 0 /\ status[f][k] = <<>>
    /\ pc = "done" => returned = [totalFixed |-> 0, totalFailed |-> 0]

C5_Witness ==
  /\ pc = "done"
  /\ GateFailed
  /\ invs[1].timer = "fired"
  /\ invs[1].signalled

\* the three other ways the gate fails
C5_WitnessNotFound == pc = "done" /\ GateFailed /\ invs[1].proc = "none"
C5_WitnessNonZero == pc = "done" /\ GateFailed /\ invs[1].closeFired /\ ~invs[1].errorFired
C5_WitnessSpawnError == pc = "done" /\ GateFailed /\ invs[1].errorFired

\* C6: in dry-run mode the fix phase spawns no process at any point and every
\* issue of every file is reported as would-be-fixed (fixed = number of
\* issues, failed = 0), whether or not the agent is installed.
C6_DryRunSpawnsNothing ==
  dryRun =>
    /\ \A i \in 1..Len(invs) : invs[i].proc = "none"
    /\ pc = "done" => returned = [totalFixed |-> TotalIssues, totalFailed |-> 0]

\* C7: when the deadline of a fix invocation comes while its subprocess is
\* still running, the subprocess is sent the termination signal and the
\* invocation resolves as failed with the timeout message; from then on its
\* result is the timeout failure, never an exit-code or captured-output one,
\* whatever the subprocess does afterwards.
C7_TimeoutResolvesFailed ==
  /\ [][\A i \in 1..Len(invs) :
          (/\ invs[i].kind # "probe"
           /\ invs[i].timer = "armed"
           /\ invs'[i].timer = "fired"
           /\ invs[i].proc = "alive")
            => /\ invs'[i].settled
               /\ invs'[i].result = Failure("timeout")
               /\ invs'[i].signalled]_vars
  /\ [](\A i \in 1..Len(invs) :
          (invs[i].kind # "probe" /\ invs[i].signalled)
            => invs[i].settled /\ invs[i].result = Failure("timeout"))

C7_Witness ==
  \E i \in 1..Len(invs) :
    /\ invs[i].kind = "batch"
    /\ invs[i].signalled
    /\ invs[i].closeFired
    /\ invs[i].result = Failure("timeout")
    /\ pc = "done"

\* C8: the result of one invocation (fix invocation or probe) is settled at
\* most once.  The first of error, close and timeout to fire determines it;
\* a later one leaves the result as it is and changes no counter, no
\* reported status and no position of the fix loop.
C8_SettledOnce ==
  [][\A i \in 1..Len(invs) :
       /\ invs[i].settled =>
            /\ invs'[i].settled
            /\ invs'[i].result = invs[i].result
            /\ invs'[i] # invs[i] => UNCHANGED <<pc, ctl>>
       /\ (~invs[i].settled /\ invs'[i].settled) =>
            /\ (invs'[i].errorFired /\ ~invs[i].errorFired)
                 => invs'[i].result = ErrorResult(invs[i].kind)
            /\ (invs'[i].closeFired /\ ~invs[i].closeFired)
                 => invs'[i].result \in {CloseResult(invs[i].kind, 0),
                                         CloseResult(invs[i].kind, 1)}
            /\ (invs'[i].timer = "fired" /\ invs[i].timer = "armed")
                 => invs'[i].result = TimeoutResult(invs[i].kind)]_vars

C8_Witness ==
  /\ \E i \in 1..Len(invs) :
       /\ invs[i].kind = "issue"
       /\ invs[i].result = Success
       /\ invs[i].timer = "fired"
  /\ \E i \in 1..Len(invs) :
       /\ invs[i].result = Failure("timeout")
       /\ invs[i].closeFired
  /\ \E i \in 1..Len(invs) :
       /\ invs[i].result = Failure("spawn")
       /\ invs[i].closeFired
       /\ invs[i].timer = "fired"

\* C9: a failed invocation (non-zero exit, spawn error or timeout) never ends
\* the fix loop.  A failure is followed by the call for the next issue of the
\* file when there is one, and by the next file otherwise; so when a
\* non-dry run that passed the gate returns, every file was handled and
\* every issue was the subject of at least one spawned invocation.
C9_Covered(f, k) ==
  \E i \in 1..Len(invs) :
    /\ invs[i].file = f
    /\ invs[i].proc # "none"
    /\ invs[i].issue \in {0, k}

C9_FailureNeverStopsLoop ==
  /\ [][(/\ pc \in {"single", "fallback"}
         /\ Last.settled
         /\ ~Last.result.success
         /\ pc' # pc \/ ctl' # ctl)
          => IF issueIdx < issuesByFile[fileIdx]
             THEN /\ pc' = pc
                  /\ Len(invs') = Len(invs) + 1
                  /\ invs'[Len(invs')].file = fileIdx
                  /\ invs'[Len(invs')].issue = issueIdx + 1
             ELSE /\ pc' = "file"
                  /\ fileIdx' = fileIdx + 1]_vars
  /\ []((pc = "done" /\ GatePassed /\ ~dryRun)
          => /\ Len(fileResult) = NumFiles
             /\ \A f \in 1..NumFiles : \A k \in Issues(f) : C9_Covered(f, k))

C9_Witness ==
  /\ pc = "done"
  /\ GatePassed
  /\ ~dryRun
  /\ NumFiles = 2
  /\ \E i \in 1..Len(invs) : invs[i].file = 1 /\ invs[i].result = Failure("timeout")
  /\ \E i \in 1..Len(invs) : invs[i].file = 1 /\ invs[i].result = Failure("spawn")
  /\ \E i \in 1..Len(invs) : invs[i].file = 1 /\ invs[i].result = Failure("exit")
  /\ \E i \in 1..Len(invs) : invs[i].file = NumFiles /\ invs[i].proc # "none"

\* C10: at every moment at most one agent subprocess (probe or fix
\* invocation) is alive: a subprocess is spawned only after the previous one
\* has exited, also when the previous invocation ended by timeout.
C10_NoOverlap ==
  Cardinality({i \in 1..Len(invs) : invs[i].proc = "alive"}) <= 1

\* sums of the per-file records returned by fixFileIssues, in map order
RECURSIVE SumFixed(_)
SumFixed(n) == IF n = 0 THEN 0 ELSE fileResult[n].fixed + SumFixed(n - 1)
RECURSIVE SumFailed(_)
SumFailed(n) == IF n = 0 THEN 0 ELSE fileResult[n].failed + SumFailed(n - 1)

\* C11: when the fix phase has returned, its totals are the sums of the
\* per-file fixed and failed counts over every file of the map (no file at
\* all when the gate failed), and the exit status is 0 exactly when no
\* issue failed: any failed issue gives exit status 1.
C11_TotalsAndExit ==
  pc = "done" =>
    /\ GatePassed => Len(fileResult) = NumFiles
    /\ GateFailed => Len(fileResult) = 0
    /\ returned.totalFixed = SumFixed(Len(fileResult))
    /\ returned.totalFailed = SumFailed(Len(fileResult))
    /\ processExit(returned) \in {0, 1}
    /\ processExit(returned) = 0 <=>
         \A f \in 1..Len(fileResult) : fileResult[f].failed = 0

\* two files were fixed, one with a failed issue and one with a fixed
\* issue, and the process ends with status 1
C11_Witness ==
  /\ pc = "done"
  /\ Len(fileResult) >= 2
  /\ \E f, g \in 1..Len(fileResult) :
       fileResult[f].failed > 0 /\ fileResult[g].fixed > 0
  /\ returned.totalFailed > 0
  /\ returned.totalFixed > 0
  /\ processExit(returned) = 1

\* ================================================================ scan phase
\* ---------------------------------------------------------------- elements
\* JavaScript values of an attribute that are not strings
Undefined == "#undefined"   \* property absent
BoolTrue == "#true"         \* JSX attribute without a value: attributes[name] = true
Expression == "{expression}"

\* an element as collectJSXElements / parseHTML build it: `attributes` holds
\* the named attributes, hasAttributes their names and '...spread'
Element(name, attrs, spread, text, line) ==
  [name |-> name,
   attributes |-> attrs,
   hasAttributes |-> DOMAIN attrs \cup (IF spread THEN {"...spread"} ELSE {}),
   hasTextChildren |-> text,
   line |-> line]

\* has[a] and ('a' in attributes) and attributes[a]
Has(el, a) == a \in el.hasAttributes
In(el, a) == a \in DOMAIN el.attributes
Attr(el, a) == IF In(el, a) THEN el.attributes[a] ELSE Undefined
Truthy(v) == v \notin {Undefined, ""}
\* a || b
OrElse(a, b) == IF Truthy(a) THEN a ELSE b

\* String.prototype.toLowerCase on the values the model uses
toLowerCase(v) ==
  CASE v = "Main" -> "main"
    [] v = "Banner" -> "banner"
    [] OTHER -> v

\* the characters of the strings the model uses as tabindex values
Chars(v) ==
  CASE v = "0" -> <<"0">>
    [] v = "5" -> <<"5">>
    [] v = "-1" -> <<"-", "1">>
    [] v = "+2" -> <<"+", "2">>
    [] v = " 3" -> <<" ", "3">>
    [] v = "1x" -> <<"1", "x">>
    [] v = "abc" -> <<"a", "b", "c">>
    [] v = "-" -> <<"-">>
    [] v = BoolTrue -> <<"t", "r", "u", "e">>
    [] v = Expression -> <<"{", "e", "x", "p", "r", "e", "s", "s", "i", "o", "n", "}">>
    [] OTHER -> <<>>

Digit(c) ==
  CASE c = "0" -> 0 [] c = "1" -> 1 [] c = "2" -> 2 [] c = "3" -> 3
    [] c = "4" -> 4 [] c = "5" -> 5 [] c = "6" -> 6 [] c = "7" -> 7
    [] c = "8" -> 8 [] c = "9" -> 9 [] OTHER -> -1

RECURSIVE SkipSpace(_)
SkipSpace(cs) == IF cs # <<>> /\ Head(cs) = " " THEN SkipSpace(Tail(cs)) ELSE cs

\* value of the longest prefix of digits of cs, continuing from acc
RECURSIVE Digits(_, _)
Digits(cs, acc) ==
  IF cs # <<>> /\ Digit(Head(cs)) >= 0
  THEN Digits(Tail(cs), 10 * acc + Digit(Head(cs)))
  ELSE acc

\* parseInt(v, 10): [nan |-> TRUE] or [nan |-> FALSE, value |-> n]
parseInt(v) ==
  LET t == SkipSpace(Chars(v))
      neg == t # <<>> /\ Head(t) = "-"
      u == IF t # <<>> /\ Head(t) \in {"-", "+"} THEN Tail(t) ELSE t
  IN  IF u = <<>> \/ Digit(Head(u)) < 0
      THEN [nan |-> TRUE, value |-> 0]
      ELSE [nan |-> FALSE, value |-> IF neg THEN 0 - Digits(u, 0) ELSE Digits(u, 0)]

\* ---------------------------------------------------------------- rules
\* Each check is TRUE when rule.check(element) returns an issue (anchored at
\* element.line) and FALSE when it returns null.
Spread(el) == Has(el, "...spread")

imgAlt(el) ==
  /\ el.name = "img"
  /\ ~Spread(el)
  /\ ~In(el, "alt")

\* the accessible name that button-content and anchor-content look for
hasAriaLabel(el) == In(el, "aria-label") \/ In(el, "ariaLabel")
hasAriaLabelledBy(el) == In(el, "aria-labelledby") \/ In(el, "ariaLabelledby")
hasTitle(el) == In(el, "title")

NamelessIgnoresTitle(el) ==
  ~hasAriaLabel(el) /\ ~hasAriaLabelledBy(el) /\ ~el.hasTextChildren

Nameless(el) ==
  ~hasAriaLabel(el) /\ ~hasAriaLabelledBy(el) /\ ~hasTitle(el) /\ ~el.hasTextChildren

buttonContent(el) ==
  /\ el.name = "button"
  /\ ~Spread(el)
  /\ Nameless(el)

noDivButton(el) ==
  /\ el.name \in {"div", "span", "section", "article", "li", "td"}
  /\ ~Spread(el)
  /\ \E a \in {"onClick", "onclick", "onKeyDown", "onkeydown", "onKeyUp",
               "onkeyup", "onKeyPress", "onkeypress"} : In(el, a)
  /\ \/ ~In(el, "role")
     \/ ~(In(el, "tabIndex") \/ In(el, "tabindex"))

formLabel(el) ==
  /\ el.name \in {"input", "select", "textarea"}
  /\ ~Spread(el)
  /\ OrElse(Attr(el, "type"), "") \notin {"hidden", "submit", "button", "reset"}
  /\ ~hasAriaLabel(el) /\ ~hasAriaLabelledBy(el) /\ ~hasTitle(el)

anchorContent(el) ==
  /\ el.name = "a"
  /\ ~Spread(el)
  /\ In(el, "href")
  /\ ~(Attr(el, "aria-hidden") = "true" \/ Attr(el, "ariaHidden") = "true")
  /\ Nameless(el)

noAutofocus(el) ==
  \/ In(el, "autoFocus") \/ In(el, "autofocus")
  \/ Has(el, "autoFocus") \/ Has(el, "autofocus")

VALID_ROLES ==
  {"alert", "alertdialog", "application", "article", "banner", "button",
   "cell", "checkbox", "columnheader", "combobox", "complementary",
   "contentinfo", "definition", "dialog", "directory", "document", "feed",
   "figure", "form", "grid", "gridcell", "group", "heading", "img", "link",
   "list", "listbox", "listitem", "log", "main", "marquee", "math", "menu",
   "menubar", "menuitem", "menuitemcheckbox", "menuitemradio", "meter",
   "navigation", "none", "note", "option", "presentation", "progressbar",
   "radio", "radiogroup", "region", "row", "rowgroup", "rowheader",
   "scrollbar", "search", "searchbox", "separator", "slider", "spinbutton",
   "status", "switch", "tab", "table", "tablist", "tabpanel", "term",
   "textbox", "timer", "toolbar", "tooltip", "tree", "treegrid", "treeitem"}

\* the members of VALID_ARIA_ATTRS among the attribute names of the model
VALID_ARIA_ATTRS ==
  {"aria-describedby", "aria-disabled", "aria-hidden", "aria-label",
   "aria-labelledby"}

\* attr.startsWith('aria-') on the attribute names of the model
StartsWithAria(a) ==
  a \in {"aria-label", "aria-labelledby", "aria-hidden", "aria-describedby",
         "aria-disabled", "aria-foo"}

ariaValid(el) ==
  LET role == Attr(el, "role") IN
  /\ ~Spread(el)
  /\ \/ Truthy(role) /\ role # Expression /\ toLowerCase(role) \notin VALID_ROLES
     \/ /\ Truthy(role) /\ role \in {"presentation", "none"}
        /\ el.name \in {"a", "button", "input", "select", "textarea"}
     \/ \E a \in DOMAIN el.attributes :
          StartsWithAria(a) /\ toLowerCase(a) \notin VALID_ARIA_ATTRS
     \/ /\ Attr(el, "aria-hidden") = "true"
        /\ (Has(el, "aria-label") \/ Has(el, "aria-labelledby"))

keyboardHandlers(el) ==
  /\ ~Spread(el)
  /\ el.name \notin {"button", "a", "input", "select", "textarea", "summary",
                     "details"}
  /\ Has(el, "onClick") \/ Has(el, "onclick")
  /\ ~\E a \in {"onKeyDown", "onkeydown", "onKeyUp", "onkeyup", "onKeyPress",
                "onkeypress"} : Has(el, a)

FOCUSABLE_ELEMENTS == {"a", "button", "input", "select", "textarea", "summary"}

ariaHiddenFocus(el) ==
  /\ ~Spread(el)
  /\ Attr(el, "aria-hidden") = "true" \/ Attr(el, "ariaHidden") = "true"
  /\ ~(el.name = "a" /\ ~Has(el, "href"))
  /\ ~(el.name = "input" /\ Attr(el, "type") = "hidden")
  /\ OrElse(Attr(el, "tabIndex"), Attr(el, "tabindex")) # "-1"
  /\ \/ el.name \in FOCUSABLE_ELEMENTS
     \/ \E a \in {"tabIndex", "tabindex", "contentEditable", "contenteditable"} :
          Has(el, a)

hoverOnly(el) ==
  /\ ~Spread(el)
  /\ \E a \in {"onMouseEnter", "onmouseenter", "onMouseOver", "onmouseover",
               "onMouseLeave", "onmouseleave"} : Has(el, a)
  /\ ~\E a \in {"onFocus", "onfocus", "onBlur", "onblur"} : Has(el, a)

disabledState(el) ==
  /\ ~Spread(el)
  /\ el.name \in {"button", "input", "select", "textarea", "fieldset"}
  /\ Has(el, "disabled")
  /\ ~(Has(el, "title") \/ Has(el, "aria-label") \/ Has(el, "aria-describedby"))

\* the decision of tabindex-positive on a parsed number
PositiveOrZero(n) == n >= 0

Positive(n) == n > 0

tabindexPositive(el) ==
  LET rawValue == OrElse(Attr(el, "tabindex"), Attr(el, "tabIndex")) IN
  /\ ~Spread(el)
  /\ Has(el, "tabindex") \/ Has(el, "tabIndex")
  /\ Truthy(rawValue) /\ rawValue # Expression
  /\ ~parseInt(rawValue).nan
  /\ Positive(parseInt(rawValue).value)

\* allRules: the registry, in its order
allRules ==
  <<"img-alt", "button-content", "no-div-button", "form-label",
    "heading-order", "anchor-content", "no-autofocus", "semantic-nav",
    "aria-valid", "keyboard-handlers", "landmark-regions",
    "aria-hidden-focus", "hover-only", "disabled-state", "tabindex-positive">>

\* rule.check(element) of the rule with this id; the three file-level rules
\* have a check() that returns null
check(id, el) ==
  CASE id = "img-alt" -> imgAlt(el)
    [] id = "button-content" -> buttonContent(el)
    [] id = "no-div-button" -> noDivButton(el)
    [] id = "form-label" -> formLabel(el)
    [] id = "anchor-content" -> anchorContent(el)
    [] id = "no-autofocus" -> noAutofocus(el)
    [] id = "aria-valid" -> ariaValid(el)
    [] id = "keyboard-handlers" -> keyboardHandlers(el)
    [] id = "aria-hidden-focus" -> ariaHiddenFocus(el)
    [] id = "hover-only" -> hoverOnly(el)
    [] id = "disabled-state" -> disabledState(el)
    [] id = "tabindex-positive" -> tabindexPositive(el)
    [] OTHER -> FALSE

\* getRules(ruleIds): null selects the whole registry
getRules(sel) ==
  IF ~sel.given THEN allRules
  ELSE LET Selected(id) == id \in sel.ids IN SelectSeq(allRules, Selected)

\* ---------------------------------------------------------------- file rules
\* an issue: its rule and its line; `elem` records which element of the list
\* rule.check was given (0 for an issue of a file-level check)
Issue(id, line) == [ruleId |-> id, line |-> line, elem |-> 0]
ElementIssue(id, line, j) == [ruleId |-> id, line |-> line, elem |-> j]

\* collectHeadings / collectHTMLHeadings: the h1..h6 elements, in list order
HeadingLevel(name) ==
  CASE name = "h1" -> 1 [] name = "h2" -> 2 [] name = "h3" -> 3
    [] name = "h4" -> 4 [] name = "h5" -> 5 [] name = "h6" -> 6 [] OTHER -> 0

collectHeadings(elements) ==
  LET IsHeading(el) == HeadingLevel(el.name) > 0
      hs == SelectSeq(elements, IsHeading)
  IN  [j \in 1..Len(hs) |-> [level |-> HeadingLevel(hs[j].name), line |-> hs[j].line]]

\* the test of checkHeadings on the previous level and the heading's level
AnyIncrease(prevLevel, level) == prevLevel > 0 /\ level > prevLevel

SkipsLevel(prevLevel, level) == prevLevel > 0 /\ level > prevLevel + 1

\* the loop of checkHeadings from heading j on, prevLevel carried along
RECURSIVE HeadingLoop(_, _, _)
HeadingLoop(headings, j, prevLevel) ==
  IF j > Len(headings) THEN <<>>
  ELSE (IF SkipsLevel(prevLevel, headings[j].level)
        THEN <<Issue("heading-order", headings[j].line)>>
        ELSE <<>>)
       \o HeadingLoop(headings, j + 1, headings[j].level)

checkHeadings(headings) == HeadingLoop(headings, 1, 0)

\* thresholds of checkNavPatterns
NavMinAnchors == 3
NavLineSpan == 15

SpanAlwaysClose(a1, a3) == TRUE

SpanClose(a1, a3) == a3.line - a1.line <= NavLineSpan

\* the for loop of checkNavPatterns from window i on (1-based), with its break
RECURSIVE NavLoop(_, _)
NavLoop(anchors, i) ==
  IF i > Len(anchors) - 2 THEN <<>>
  ELSE IF SpanClose(anchors[i], anchors[i + 2])
       THEN <<Issue("semantic-nav", anchors[i].line)>>
       ELSE NavLoop(anchors, i + 1)

anchorElements(elements) ==
  LET IsLink(el) == el.name = "a" /\ In(el, "href") IN SelectSeq(elements, IsLink)

checkNavPatterns(elements) ==
  IF \E j \in 1..Len(elements) : elements[j].name = "nav" THEN <<>>
  ELSE IF Len(anchorElements(elements)) >= NavMinAnchors
       THEN NavLoop(anchorElements(elements), 1)
       ELSE <<>>

\* ---------------------------------------------------------------- analyzeFile
\* a file on disk: [readable, type ("jsx" | "html"), parses, doctype, elements]
\*   readable: readFileSafe returns its text (null otherwise)
\*   parses:   the babel parser accepts it (parseJSX returns null otherwise)
\*   doctype:  the text contains '<!doctype'
\*   elements: what collectJSXElements / parseHTML return for it
File(readable, type, parses, doctype, elements) ==
  [readable |-> readable, type |-> type, parses |-> parses,
   doctype |-> doctype, elements |-> elements]

\* inner loop of the element-level rules: rules r.. on element j
RECURSIVE RuleLoop(_, _, _, _)
RuleLoop(elements, j, rules, r) ==
  IF r > Len(rules) THEN <<>>
  ELSE (IF check(rules[r], elements[j])
        THEN <<ElementIssue(rules[r], elements[j].line, j)>>
        ELSE <<>>)
       \o RuleLoop(elements, j, rules, r + 1)

\* outer loop of the element-level rules: elements j..
RECURSIVE ElementLoop(_, _, _)
ElementLoop(elements, j, rules) ==
  IF j > Len(elements) THEN <<>>
  ELSE RuleLoop(elements, j, rules, 1) \o ElementLoop(elements, j + 1, rules)

\* loop of the file-level rules: only heading-order and semantic-nav are called
RECURSIVE FileRuleLoop(_, _, _)
FileRuleLoop(elements, rules, r) ==
  IF r > Len(rules) THEN <<>>
  ELSE (IF rules[r] = "heading-order"
        THEN checkHeadings(collectHeadings(elements)) ELSE <<>>)
       \o (IF rules[r] = "semantic-nav"
           THEN checkNavPatterns(elements) ELSE <<>>)
       \o FileRuleLoop(elements, rules, r + 1)

\* the issues in the order analyzeFile pushes them
Detected(elements, rules) ==
  ElementLoop(elements, 1, rules) \o FileRuleLoop(elements, rules, 1)

\* issues.sort((a, b) => a.line - b.line): Array.prototype.sort is stable
RECURSIVE InsertByLine(_, _)
InsertByLine(sorted, x) ==
  IF sorted = <<>> THEN <<x>>
  ELSE IF sorted[Len(sorted)].line <= x.line THEN Append(sorted, x)
  ELSE Append(InsertByLine(SubSeq(sorted, 1, Len(sorted) - 1), x),
              sorted[Len(sorted)])

RECURSIVE SortFirst(_, _)
SortFirst(issues, n) ==
  IF n = 0 THEN <<>> ELSE InsertByLine(SortFirst(issues, n - 1), issues[n])

KeepOrder(issues) == issues

sortByLine(issues) == SortFirst(issues, Len(issues))

analyzeUnguarded(file, rules) == sortByLine(Detected(file.elements, rules))

analyzeFile(file, rules) ==
  IF ~file.readable THEN <<>>
  ELSE IF file.type = "jsx" /\ ~file.parses THEN <<>>
  ELSE IF file.type \notin {"jsx", "html"} THEN <<>>
  ELSE sortByLine(Detected(file.elements, rules))

\* ---------------------------------------------------------------- scan actions
\* the fix phase has not started
FixIdle ==
  /\ issuesByFile = <<>>
  /\ dryRun = FALSE
  /\ oneByOne = FALSE
  /\ installed = FALSE
  /\ copilotPath = "undefined"
  /\ pc = "idle"
  /\ fileIdx = 0
  /\ issueIdx = 0
  /\ fixed = 0
  /\ failed = 0
  /\ totalFixed = 0
  /\ totalFailed = 0
  /\ fileResult = <<>>
  /\ returned = [totalFixed |-> 0, totalFailed |-> 0]
  /\ invs = <<>>
  /\ status = <<>>
  /\ cntFixed = <<>>
  /\ cntFailed = <<>>

fixVars == <<issuesByFile, dryRun, oneByOne, installed, copilotPath, pc, ctl,
             invs>>

\* rule.check(element) raises: aria-valid calls role.toLowerCase() on every
\* truthy role but the placeholder, and the boolean true has no such method
Raises(id, el) ==
  /\ id = "aria-valid"
  /\ ~Spread(el)
  /\ Attr(el, "role") = BoolTrue

\* analyzeFile reaches a check that raises; nothing catches it
analyzeThrows(file, rules) ==
  /\ file.readable
  /\ file.type \in {"jsx", "html"}
  /\ file.type = "jsx" => file.parses
  /\ \E j \in 1..Len(file.elements) : \E r \in 1..Len(rules) :
       Raises(rules[r], file.elements[j])

\* one round of `for (const file of files) { issues = analyzeFile(file, rules) }`
ScanFile ==
  /\ cpc = "analyse"
  /\ Len(scanned) < Len(files)
  /\ IF analyzeThrows(files[Len(scanned) + 1], getRules(ruleIds))
     THEN /\ cpc' = "crashed"
          /\ UNCHANGED scanned
     ELSE /\ scanned' = Append(scanned, analyzeFile(files[Len(scanned) + 1], getRules(ruleIds)))
          /\ UNCHANGED cpc
  /\ UNCHANGED <<command, ruleIds, files, exitCode, usageError, discovered>>
  /\ UNCHANGED fixVars
  /\ UNCHANGED htmlVars

\* a call of analyzeFile on one file, as the scan loop makes it
AnalyzeInit(Files, Selections) ==
  /\ FixIdle
  /\ HtmlIdle
  /\ command = "scan"
  /\ ruleIds \in Selections
  /\ \E file \in Files : files = <<file>>
  /\ cpc = "analyse"
  /\ scanned = <<>>
  /\ exitCode = -1
  /\ usageError = FALSE
  /\ discovered = TRUE

AllRules == [given |-> FALSE, ids |-> {}]
Only(ids) == [given |-> TRUE, ids |-> ids]

\* ---------------------------------------------------------------- analyzeFile on mixed files
\* longest element list of a file
MaxElems == 3

NoAttrs == <<>>
OneAttr(a, v) == [x \in {a} |-> v]

\* elements that raise element-level issues, headings, links, landmarks
MixedElements ==
  {Element(e[1], e[2], FALSE, FALSE, line) :
     e \in {<<"div", OneAttr("onClick", Expression)>>,
            <<"img", NoAttrs>>,
            <<"h1", NoAttrs>>,
            <<"h3", NoAttrs>>,
            <<"a", OneAttr("href", "/x")>>,
            <<"body", NoAttrs>>,
            <<"main", NoAttrs>>},
     line \in {1, 2}}

SeqsUpTo(S, n) == UNION {[1..k -> S] : k \in 0..n}

MixedFiles ==
  {File(TRUE, "jsx", TRUE, d, els) :
     d \in BOOLEAN, els \in SeqsUpTo(MixedElements, MaxElems)}

InitMixed ==
  AnalyzeInit(MixedFiles,
              {AllRules, Only({"img-alt", "semantic-nav", "landmark-regions"})})

SpecMixed == InitMixed /\ [][ScanFile]_vars

\* position of a rule in the registry
RegistryIndex(id) == CHOOSE r \in 1..Len(allRules) : allRules[r] = id

OnLine(issues, l) == LET At(x) == x.line = l IN SelectSeq(issues, At)

\* C12: the Issue list analyzeFile returns is sorted by non-decreasing line
\* and holds exactly the detected issues; issues of one line keep their
\* detection order: an issue of an element-level rule comes before an issue
\* of a file-level rule, element-level issues come in element order and, for
\* one element, in registry order, file-level issues in registry order.
C12_SortedStable ==
  Len(scanned) = 1 =>
    LET res == scanned[1]
        det == Detected(files[1].elements, getRules(ruleIds))
    IN  /\ \A i, j \in 1..Len(res) : i < j => res[i].line <= res[j].line
        /\ Len(res) = Len(det)
        /\ \A l \in {1, 2} : OnLine(res, l) = OnLine(det, l)
        /\ \A i, j \in 1..Len(res) :
             i < j /\ res[i].line = res[j].line =>
               /\ res[i].elem = 0 => res[j].elem = 0
               /\ res[i].elem > 0 /\ res[j].elem > 0 =>
                    \/ res[i].elem < res[j].elem
                    \/ /\ res[i].elem = res[j].elem
                       /\ RegistryIndex(res[i].ruleId) < RegistryIndex(res[j].ruleId)
               /\ res[i].elem = 0 /\ res[j].elem = 0 =>
                    RegistryIndex(res[i].ruleId) <= RegistryIndex(res[j].ruleId)

\* the sort moved an issue, and on one line an element-level issue is
\* followed by a file-level issue
C12_Witness ==
  /\ Len(scanned) = 1
  /\ scanned[1] # Detected(files[1].elements, getRules(ruleIds))
  /\ \E i, j \in 1..Len(scanned[1]) :
       /\ i < j
       /\ scanned[1][i].line = scanned[1][j].line
       /\ scanned[1][i].elem > 0
       /\ scanned[1][j].elem = 0

\* ---------------------------------------------------------------- analyzeFile on headings
\* longest element list of a file of headings
MaxHeadings == 3

HeadingNames == {"h1", "h2", "h3", "h4", "h5", "h6"}

HeadingElements ==
  {Element(name, NoAttrs, FALSE, TRUE, line) :
     name \in HeadingNames \cup {"p"}, line \in {1, 2}}

HeadingFiles ==
  {File(TRUE, type, TRUE, FALSE, els) :
     type \in {"jsx", "html"}, els \in SeqsUpTo(HeadingElements, MaxHeadings)}

InitHeadings == AnalyzeInit(HeadingFiles, {AllRules, Only({"heading-order"})})

SpecHeadings == InitHeadings /\ [][ScanFile]_vars

\* the issues of one rule on one line in an Issue list
CountOf(issues, id, l) ==
  Cardinality({x \in 1..Len(issues) : issues[x].ruleId = id /\ issues[x].line = l})

\* the heading elements of a list, and those that skip a level after the
\* heading immediately before them
HeadingsAt(els) == {j \in 1..Len(els) : els[j].name \in HeadingNames}
Skipping(els) ==
  {j \in HeadingsAt(els) :
     \E i \in HeadingsAt(els) :
       /\ i < j
       /\ ~\E k \in HeadingsAt(els) : i < k /\ k < j
       /\ HeadingLevel(els[j].name) > HeadingLevel(els[i].name) + 1}

Names(els) == [j \in 1..Len(els) |-> els[j].name]

\* C13: the heading-order issues of a file are, line by line, as many as the
\* headings on that line whose level exceeds by more than one the level of
\* the heading immediately before them; the first heading and a heading
\* that does not go up by two or more raise none.  [h1, h2, h4] gives one
\* issue, on the line of h4, and [h2, h3, h4] gives none.
C13_SkippedLevel ==
  Len(scanned) = 1 =>
    LET els == files[1].elements
        res == scanned[1]
    IN  /\ \A l \in {1, 2} :
             CountOf(res, "heading-order", l) =
               Cardinality({j \in Skipping(els) : els[j].line = l})
        /\ \A x \in 1..Len(res) : res[x].ruleId = "heading-order"
        /\ Names(els) = <<"h1", "h2", "h4">> =>
             res = <<Issue("heading-order", els[3].line)>>
        /\ Names(els) = <<"h2", "h3", "h4">> => res = <<>>
        /\ (\A i, j \in HeadingsAt(els) :
              i < j => HeadingLevel(els[j].name) <= HeadingLevel(els[i].name))
             => res = <<>>

\* h1, h2, h4 with h4 on line 2: one issue on line 2
C13_Witness ==
  /\ Len(scanned) = 1
  /\ Names(files[1].elements) = <<"h1", "h2", "h4">>
  /\ files[1].elements[3].line = 2
  /\ files[1].elements[1].line = 1
  /\ scanned[1] = <<Issue("heading-order", 2)>>

\* ---------------------------------------------------------------- analyzeFile on one element
\* most attributes of the element
MaxAttrs == 2

ElementNames == {"img", "button", "a", "input", "div"}

\* attributes the rules look at, with the values that make them decide
AttrPalette ==
  <<<<"alt", "x">>, <<"aria-label", "x">>, <<"ariaLabel", "x">>,
    <<"aria-labelledby", "x">>, <<"ariaLabelledby", "x">>, <<"title", "x">>,
    <<"href", "/x">>,
    <<"aria-hidden", "true">>, <<"aria-hidden", "false">>, <<"aria-hidden", BoolTrue>>,
    <<"tabindex", "0">>, <<"tabindex", "5">>, <<"tabindex", "-1">>,
    <<"tabindex", "+2">>, <<"tabindex", " 3">>, <<"tabindex", "1x">>,
    <<"tabindex", "abc">>, <<"tabindex", "-">>, <<"tabindex", "">>,
    <<"tabindex", BoolTrue>>, <<"tabindex", Expression>>,
    <<"tabIndex", "5">>, <<"tabIndex", "0">>, <<"tabIndex", Expression>>,
    <<"onClick", Expression>>, <<"onKeyDown", Expression>>,
    <<"onMouseEnter", Expression>>, <<"onFocus", Expression>>,
    <<"disabled", BoolTrue>>,
    <<"role", "button">>, <<"role", "presentation">>, <<"role", "bogus">>,
    <<"type", "hidden">>, <<"type", "text">>,
    <<"aria-describedby", "x">>, <<"aria-foo", "x">>, <<"autoFocus", BoolTrue>>>>

\* choices of k attributes with distinct names, as increasing positions
Picks(k) ==
  {c \in [1..k -> 1..Len(AttrPalette)] :
     \A i, j \in 1..k :
       i < j => c[i] < c[j] /\ AttrPalette[c[i]][1] # AttrPalette[c[j]][1]}

AttrsOf(c) ==
  [a \in {AttrPalette[c[i]][1] : i \in DOMAIN c} |->
     LET i == CHOOSE i \in DOMAIN c : AttrPalette[c[i]][1] = a IN AttrPalette[c[i]][2]]

SingleElements ==
  {Element(name, AttrsOf(c), spread, text, 1) :
     name \in ElementNames,
     c \in UNION {Picks(k) : k \in 0..MaxAttrs},
     spread \in BOOLEAN,
     text \in BOOLEAN}

ElementFiles == {File(TRUE, "jsx", TRUE, FALSE, <<el>>) : el \in SingleElements}

InitElement == AnalyzeInit(ElementFiles, {AllRules})

SpecElement == InitElement /\ [][ScanFile]_vars

\* the one element of the analysed file and the rules that flagged it
TheElement == files[1].elements[1]
Flagged == {scanned[1][x].ruleId : x \in 1..Len(scanned[1])}

AttributePresenceRules ==
  {"img-alt", "form-label", "no-div-button", "keyboard-handlers", "hover-only",
   "disabled-state", "tabindex-positive", "aria-valid", "aria-hidden-focus"}

\* no accessible name is visible on the element itself
NoVisibleName(el) ==
  /\ ~el.hasTextChildren
  /\ el.hasAttributes \cap {"aria-label", "ariaLabel", "aria-labelledby",
                            "ariaLabelledby", "title", "aria-hidden"} = {}

\* C14: an element with spread attributes is flagged by no attribute-presence
\* rule, and it is still flagged by the text-content rule of its kind
\* (button-content for a button, anchor-content for an anchor with href)
\* when it has no text descendant and no naming attribute.
C14_SpreadStillTextChecked ==
  Len(scanned) = 1 /\ Spread(TheElement) =>
    /\ Flagged \cap AttributePresenceRules = {}
    /\ TheElement.name = "button" /\ NoVisibleName(TheElement)
         => "button-content" \in Flagged
    /\ TheElement.name = "a" /\ Has(TheElement, "href") /\ NoVisibleName(TheElement)
         => "anchor-content" \in Flagged

\* ---------------------------------------------------------------- analyzeFile on links
\* longest element list of a file of links
MaxAnchors == 4

\* links, anchors without href and nav elements, on lines 15 and 16 apart
NavElements ==
  {Element(e[1], e[2], FALSE, TRUE, line) :
     e \in {<<"a", OneAttr("href", "/x")>>, <<"a", NoAttrs>>, <<"nav", NoAttrs>>},
     line \in {1, 16, 17}}

NavFiles ==
  {File(TRUE, "jsx", TRUE, FALSE, els) : els \in SeqsUpTo(NavElements, MaxAnchors)}

InitNav == AnalyzeInit(NavFiles, {AllRules, Only({"semantic-nav"})})

SpecNav == InitNav /\ [][ScanFile]_vars

\* the links of a list, and the first links of three consecutive links of
\* which the third is at most 15 lines after the first
LinksAt(els) == {j \in 1..Len(els) : els[j].name = "a" /\ "href" \in els[j].hasAttributes}
CloseWindows(els) ==
  {i \in LinksAt(els) :
     \E k, m \in LinksAt(els) :
       /\ i < k /\ k < m
       /\ \A x \in LinksAt(els) : i < x /\ x < m => x = k
       /\ els[m].line - els[i].line <= 15}
First(S) == CHOOSE i \in S : \A j \in S : i <= j

PageLike(file) ==
  \/ file.doctype
  \/ \E j \in 1..Len(file.elements) : file.elements[j].name \in {"html", "body"}

\* a region kind is present by one of its tags or by its role
Present(file, tag, role) ==
  \E j \in 1..Len(file.elements) :
    \/ file.elements[j].name = tag
    \/ Attr(file.elements[j], "role") = role

RegionKinds == {<<"main", "main">>, <<"header", "banner">>, <<"footer", "contentinfo">>}

\* C16: with landmark-regions among the active rules, the Issue list of a
\* file that looks like a full document holds one landmark-regions issue on
\* line 1 for each missing region kind (main, header, footer, by tag or by
\* role), and no landmark-regions issue on any other line.
C16_LandmarksReported ==
  /\ Len(scanned) = 1
  /\ \E r \in 1..Len(getRules(ruleIds)) : getRules(ruleIds)[r] = "landmark-regions"
  /\ PageLike(files[1])
  => /\ CountOf(scanned[1], "landmark-regions", 1) =
          Cardinality({k \in RegionKinds : ~Present(files[1], k[1], k[2])})
     /\ CountOf(scanned[1], "landmark-regions", 2) = 0

\* ---------------------------------------------------------------- the commands
\* most files under the scanned path
MaxFiles == 2

\* rule.severity
Severity(id) ==
  IF id \in {"img-alt", "button-content", "no-div-button", "form-label",
             "anchor-content", "aria-valid", "keyboard-handlers",
             "aria-hidden-focus", "hover-only"}
  THEN "error" ELSE "warning"

\* totalErrors of the scan loop
RECURSIVE TotalErrors(_)
TotalErrors(n) ==
  IF n = 0 THEN 0
  ELSE TotalErrors(n - 1) +
       Cardinality({x \in 1..Len(scanned[n]) : Severity(scanned[n][x].ruleId) = "error"})

\* allIssues.size: files with at least one issue
FilesWithIssues == Cardinality({n \in 1..Len(scanned) : scanned[n] # <<>>})

\* the check `rules.length === 0` after getRules: the scan action has it,
\* the fix action has not
RejectsEmpty(cmd, rules) == cmd \in {"scan", "scan --auto-fix"} /\ Len(rules) = 0

\* the action up to its call of walkDir
cliStart ==
  /\ cpc = "start"
  /\ IF RejectsEmpty(command, getRules(ruleIds))
     THEN /\ usageError' = TRUE
          /\ exitCode' = 1
          /\ cpc' = "exit"
     ELSE /\ cpc' = "walk"
          /\ UNCHANGED <<usageError, exitCode>>
  /\ UNCHANGED <<command, ruleIds, files, scanned, discovered>>
  /\ UNCHANGED fixVars
  /\ UNCHANGED htmlVars

\* walkDir and the check `files.length === 0`
walkDir ==
  /\ cpc = "walk"
  /\ discovered' = TRUE
  /\ IF Len(files) = 0
     THEN exitCode' = 1 /\ cpc' = "exit"
     ELSE cpc' = "analyse" /\ UNCHANGED exitCode
  /\ UNCHANGED <<command, ruleIds, files, scanned, usageError>>
  /\ UNCHANGED fixVars
  /\ UNCHANGED htmlVars

\* after the loop: the report, then process.exit or the call of autoFixAll
report ==
  /\ cpc = "analyse"
  /\ Len(scanned) = Len(files)
  /\ IF command = "scan"
     THEN /\ exitCode' = (IF TotalErrors(Len(scanned)) > 0 THEN 1 ELSE 0)
          /\ cpc' = "exit"
     ELSE IF FilesWithIssues = 0
          THEN exitCode' = 0 /\ cpc' = "exit"
          ELSE cpc' = "autofix" /\ UNCHANGED exitCode
  /\ UNCHANGED <<command, ruleIds, files, scanned, usageError, discovered>>
  /\ UNCHANGED fixVars
  /\ UNCHANGED htmlVars

\* files of the scanned path: unreadable, not parsable, with an error, with a
\* warning, clean
CliFiles ==
  LET img == Element("img", NoAttrs, FALSE, FALSE, 1)
      h1 == Element("h1", NoAttrs, FALSE, TRUE, 1)
      h3 == Element("h3", NoAttrs, FALSE, TRUE, 2)
      p == Element("p", NoAttrs, FALSE, TRUE, 1)
  IN  {File(FALSE, "jsx", TRUE, FALSE, <<img>>),
       File(TRUE, "jsx", FALSE, FALSE, <<img>>),
       File(TRUE, "jsx", TRUE, FALSE, <<img>>),
       File(TRUE, "html", TRUE, TRUE, <<h1, h3>>),
       File(TRUE, "jsx", TRUE, FALSE, <<p>>)}

InitCli ==
  /\ FixIdle
  /\ HtmlIdle
  /\ command \in {"scan", "scan --auto-fix", "fix"}
  /\ ruleIds \in {AllRules, Only({"img-alt"}), Only({"bogus"})}
  /\ files \in SeqsUpTo(CliFiles, MaxFiles)
  /\ cpc = "start"
  /\ scanned = <<>>
  /\ exitCode = -1
  /\ usageError = FALSE
  /\ discovered = FALSE

NextCli ==
  \/ cliStart
  \/ walkDir
  \/ ScanFile
  \/ report

SpecCli == InitCli /\ [][NextCli]_vars

\* C17: for every command that scans, when the rule filter selects no rule
\* the run has, as soon as it has started, printed the usage error and
\* ended: no file was discovered or analysed and the fix phase is not
\* entered.
C17_EmptySelectionRejected ==
  Len(getRules(ruleIds)) = 0 /\ cpc # "start" =>
    /\ usageError
    /\ cpc = "exit"
    /\ exitCode = 1
    /\ ~discovered
    /\ scanned = <<>>

\* the file cannot be read or cannot be parsed
Broken(file) == ~file.readable \/ (file.type = "jsx" /\ ~file.parses)

\* C18: analyzeFile returns the empty list for an unreadable file and for a
\* file that fails to parse; the loop goes on after it: while files remain
\* the run is still analysing, and a run that analysed a file ends with
\* every file analysed.
C18_BrokenFileSkipped ==
  /\ \A n \in 1..Len(scanned) : Broken(files[n]) => scanned[n] = <<>>
  /\ Len(scanned) > 0 /\ Len(scanned) < Len(files) => cpc = "analyse" /\ exitCode = -1
  /\ cpc \in {"exit", "autofix"} /\ Len(files) > 0 /\ ~usageError =>
       Len(scanned) = Len(files)

\* an unreadable file was followed by a file with an issue, which is
\* reported, and the run has ended
C18_Witness ==
  /\ cpc = "exit"
  /\ Len(files) = 2
  /\ ~files[1].readable
  /\ scanned = <<<<>>, <<ElementIssue("img-alt", 1, 1)>>>>
  /\ exitCode = 1

\* ---------------------------------------------------------------- accessible name
\* an accessible name is present on the element: aria-label or
\* aria-labelledby in either spelling, title, or a text descendant
Named(el) ==
  \/ el.hasAttributes \cap {"aria-label", "ariaLabel", "aria-labelledby",
                            "ariaLabelledby", "title"} # {}
  \/ el.hasTextChildren

TabValue(el) ==
  IF "tabindex" \in el.hasAttributes /\ el.attributes["tabindex"] # ""
  THEN el.attributes["tabindex"]
  ELSE IF "tabIndex" \in el.hasAttributes THEN el.attributes["tabIndex"]
  ELSE Undefined

\* the values that are numbers as a whole, and those that only start with one
WholeInteger == [v \in {"0", "5", "-1", "+2", " 3"} |->
                   CASE v = "0" -> 0 [] v = "5" -> 5 [] v = "-1" -> 0 - 1
                     [] v = "+2" -> 2 [] v = " 3" -> 3]
LeadingInteger == [v \in DOMAIN WholeInteger \cup {"1x"} |->
                     IF v = "1x" THEN 1 ELSE WholeInteger[v]]
NonNumeric == {"1x", "abc", "-", ""}
NoLeadingInteger == {"abc", "-", ""}
Unevaluated == {BoolTrue, Expression, Undefined}

\* C20 (as stated): tabindex-positive raises an issue only when the tabindex
\* value is a literal that is an integer greater than 0; a non-numeric
\* value, a boolean presence marker and the expression placeholder raise no
\* issue, and 0 and negative values raise no issue.
C20_OnlyPositiveLiteral ==
  Len(scanned) = 1 =>
    LET v == TabValue(TheElement) IN
    /\ "tabindex-positive" \in Flagged => v \in DOMAIN WholeInteger /\ WholeInteger[v] > 0
    /\ v \in NonNumeric \cup Unevaluated => "tabindex-positive" \notin Flagged
    /\ v \in DOMAIN WholeInteger /\ WholeInteger[v] <= 0 => "tabindex-positive" \notin Flagged

\* C20 (amended): tabindex-positive raises an issue only when the tabindex
\* value is a literal that starts, after optional white space and sign, with
\* an integer greater than 0 (what parseInt reads: "1x" counts as 1), and
\* then it does unless the element has spread attributes; a value that
\* starts with no integer, a boolean presence marker and the expression
\* placeholder raise no issue, and 0 and negative values raise no issue.
C20_OnlyPositivePrefix ==
  Len(scanned) = 1 =>
    LET v == TabValue(TheElement) IN
    /\ v \in DOMAIN LeadingInteger \cup NoLeadingInteger \cup Unevaluated
    /\ "tabindex-positive" \in Flagged => v \in DOMAIN LeadingInteger /\ LeadingInteger[v] > 0
    /\ v \in NoLeadingInteger \cup Unevaluated => "tabindex-positive" \notin Flagged
    /\ v \in DOMAIN LeadingInteger /\ LeadingInteger[v] <= 0 => "tabindex-positive" \notin Flagged
    /\ v \in DOMAIN LeadingInteger /\ LeadingInteger[v] > 0 /\ ~Spread(TheElement)
         => "tabindex-positive" \in Flagged

\* tabindex="1x" was analysed and flagged
C20_Witness ==
  /\ Len(scanned) = 1
  /\ TabValue(TheElement) = "1x"
  /\ "tabindex-positive" \in Flagged

\* ================================================================ fix phase, continued
\* the statuses the reporter may have received for one issue so far
StatusPrefixes == {<<>>, <<"start">>, <<"start", "success">>, <<"start", "error">>}

\* C21: for every issue the reporter receives 'start' first and then exactly
\* one terminal status, 'success' or 'error': both have arrived once the
\* file's counts are returned.  The issue is counted as fixed exactly when
\* 'success' was reported for it and as failed exactly when 'error' was.
C21_StartThenOneTerminal ==
  \A f \in 1..NumFiles : \A k \in Issues(f) :
    /\ status[f][k] \in StatusPrefixes
    /\ Completed(f) => Len(status[f][k]) = 2
    /\ cntFixed[f][k] = 1 <=> status[f][k] = <<"start", "success">>
    /\ cntFailed[f][k] = 1 <=> status[f][k] = <<"start", "error">>

\* ================================================================ hypertext backend
\* longest source text, in tokens
MaxTokens == 5

\* tokens laid out on one source line
TokensPerLine == 2

Tok(kind, name) == [kind |-> kind, name |-> name]

\* the pieces of a source text: an opening tag, the closing tag of the
\* innermost open element, non-blank text, blank text, an embedded
\* expression ("expr"), a closing </p> with no open p, a comment quoting "<p>"
HtmlTokens ==
  {Tok("open", n) : n \in {"div", "h1", "h2"}}
    \cup {Tok("close", ""), Tok("text", ""), Tok("space", ""),
          Tok("strayclose", "p"), Tok("comment", "p")}

\* nesting depth after each token, -1 once a close has nothing to close
RECURSIVE Depth(_, _)
Depth(doc, n) ==
  IF n = 0 THEN 0
  ELSE LET d == Depth(doc, n - 1)
       IN  IF d < 0 THEN -1
           ELSE IF doc[n].kind = "open" THEN d + 1
           ELSE IF doc[n].kind = "close" THEN d - 1
           ELSE d

WellNested(doc) == Depth(doc, Len(doc)) = 0

Documents(Tokens, n) == {doc \in SeqsUpTo(Tokens, n) : WellNested(doc)}

\* html.split('\n') and getLineFromIndex: token j sits at index j - 1
Lines(doc) == IF doc = <<>> THEN 1 ELSE (Len(doc) - 1) \div TokensPerLine + 1
getLineFromIndex(index) == index \div TokensPerLine + 1

Ev(type, name, blank, tok) == [type |-> type, name |-> name, blank |-> blank, tok |-> tok]

\* the parser's callbacks for one token
TokenEvents(t, j) ==
  CASE t.kind = "open" -> <<Ev("open", t.name, FALSE, j)>>
    [] t.kind = "close" -> <<Ev("close", "", FALSE, j)>>
    [] t.kind = "text" -> <<Ev("text", "", FALSE, j)>>
    [] t.kind = "expr" -> <<Ev("text", "", FALSE, j)>>
    [] t.kind = "space" -> <<Ev("text", "", TRUE, j)>>
    [] t.kind = "strayclose" -> <<Ev("open", t.name, FALSE, j), Ev("close", "", FALSE, j)>>
    [] OTHER -> <<>>

\* parser.write(html); parser.end(): the callbacks in document order
RECURSIVE Events(_, _)
Events(doc, n) ==
  IF n = 0 THEN <<>> ELSE Events(doc, n - 1) \o TokenEvents(doc[n], n)

AllEvents == Events(markup, Len(markup))

\* new RegExp('<' + name + '[\\s>/]', 'gi'): the indexes where it matches
MatchIndexes(doc, name) ==
  {j - 1 : j \in {i \in 1..Len(doc) : doc[i].kind \in {"open", "comment"} /\ doc[i].name = name}}

Min(S) == CHOOSE x \in S : \A y \in S : x <= y

\* the first match at or after the cursor; -1 is the null bestMatch
bestMatch(doc, name, cursor) ==
  LET after == {i \in MatchIndexes(doc, name) : i >= cursor}
  IN  IF after = {} THEN -1 ELSE Min(after)

\* the element object of onopentag, with the event and match that made it
HtmlElement(name, line, event, match) ==
  [name |-> name, attributes |-> NoAttrs, hasAttributes |-> {},
   hasTextChildren |-> FALSE, line |-> line, event |-> event, match |-> match]

\* a queue would hand back the outermost open element
shift(stack) == [element |-> stack[1], rest |-> SubSeq(stack, 2, Len(stack))]

\* tagStack.pop()
pop(stack) ==
  [element |-> stack[Len(stack)], rest |-> SubSeq(stack, 1, Len(stack) - 1)]

onopentag ==
  /\ epos < Len(AllEvents)
  /\ AllEvents[epos + 1].type = "open"
  /\ LET name == AllEvents[epos + 1].name
         best == bestMatch(markup, name, currentIndex)
         line == IF best >= 0 THEN getLineFromIndex(best) ELSE 0
     IN  /\ currentIndex' = IF best >= 0 THEN best + 1 ELSE currentIndex
         /\ tagStack' = Append(tagStack, HtmlElement(name, line, epos + 1, best))
  /\ epos' = epos + 1
  /\ UNCHANGED <<markup, outElements>>
  /\ UNCHANGED fixVars
  /\ UNCHANGED scanVars

ontext ==
  /\ epos < Len(AllEvents)
  /\ AllEvents[epos + 1].type = "text"
  /\ tagStack' =
       IF Len(tagStack) > 0 /\ ~AllEvents[epos + 1].blank
       THEN [tagStack EXCEPT ![Len(tagStack)].hasTextChildren = TRUE]
       ELSE tagStack
  /\ epos' = epos + 1
  /\ UNCHANGED <<markup, currentIndex, outElements>>
  /\ UNCHANGED fixVars
  /\ UNCHANGED scanVars

onclosetag ==
  /\ epos < Len(AllEvents)
  /\ AllEvents[epos + 1].type = "close"
  /\ IF Len(tagStack) > 0
     THEN /\ tagStack' = pop(tagStack).rest
          /\ outElements' = Append(outElements, pop(tagStack).element)
     ELSE UNCHANGED <<tagStack, outElements>>
  /\ epos' = epos + 1
  /\ UNCHANGED <<markup, currentIndex>>
  /\ UNCHANGED fixVars
  /\ UNCHANGED scanVars

InitHtml ==
  /\ FixIdle
  /\ ScanIdle
  /\ markup \in Documents(HtmlTokens, MaxTokens)
  /\ epos = 0
  /\ currentIndex = 0
  /\ tagStack = <<>>
  /\ outElements = <<>>

NextHtml == onopentag \/ ontext \/ onclosetag

SpecHtml == InitHtml /\ [][NextHtml]_vars

\* parseHTML has returned
Parsed == epos = Len(AllEvents)

\* every element made so far, open or completed
Made == {tagStack[j] : j \in 1..Len(tagStack)} \cup {outElements[j] : j \in 1..Len(outElements)}

\* C22: every element either backend produces carries a line between 1 and
\* the number of lines of the source text, also when the parser opened the
\* tag without any "<name" text for it.
C22_LineWithinSource ==
  \A e \in Made : e.line >= 1 /\ e.line <= Lines(markup)

\* ---------------------------------------------------------------- cursor and lines
\* C26: the cursor never moves backward, every open is resolved to a match
\* at or after the cursor, two opens never share a match, and the lines of
\* the elements in open order never decrease, for every event sequence,
\* those with an open that no "<name" text at or after the cursor matches
\* included.
C26_CursorAndLinesMonotone ==
  /\ [][currentIndex' >= currentIndex]_vars
  /\ [](\A e \in Made : e.match >= 0)
  /\ [](\A a, b \in Made : a.event # b.event => a.match # b.match)
  /\ [](\A a, b \in Made : a.event < b.event => a.line <= b.line)

\* ---------------------------------------------------------------- stack discipline
\* nesting depth after the first n events
RECURSIVE EvDepth(_, _)
EvDepth(evs, n) ==
  IF n = 0 THEN 0
  ELSE EvDepth(evs, n - 1)
         + (IF evs[n].type = "open" THEN 1 ELSE IF evs[n].type = "close" THEN -1 ELSE 0)

\* the close event that ends the element opened by event i
MatchingClose(evs, i) ==
  Min({j \in (i + 1)..Len(evs) :
         evs[j].type = "close" /\ EvDepth(evs, j) = EvDepth(evs, i) - 1})

OpensIn(evs, n) == {i \in 1..n : evs[i].type = "open"}

\* the open events whose close has been delivered, in the order of their closes
RECURSIVE ClosedOpens(_, _)
ClosedOpens(evs, n) ==
  IF n = 0 THEN <<>>
  ELSE IF evs[n].type = "close"
       THEN Append(ClosedOpens(evs, n - 1),
                   CHOOSE i \in OpensIn(evs, n) : MatchingClose(evs, i) = n)
       ELSE ClosedOpens(evs, n - 1)

ElementOf(i) == CHOOSE e \in Made : e.event = i

\* the headings, taken in the order their elements were closed
HeadingsByClose ==
  LET closed == ClosedOpens(AllEvents, epos)
      IsHeading(i) == HeadingLevel(AllEvents[i].name) > 0
      hs == SelectSeq(closed, IsHeading)
  IN  [j \in 1..Len(hs) |->
         [level |-> HeadingLevel(AllEvents[hs[j]].name), line |-> ElementOf(hs[j]).line]]

\* C27: for a well-nested event sequence each open yields exactly one
\* element, appended to the output at its own close: a close pops the
\* element its matching open pushed, a nested element precedes its
\* ancestors, the stack is empty after the last close, the output has one
\* element per open, and the heading list is in close order.
C27_CloseOrder ==
  LET evs == AllEvents
      closed == ClosedOpens(evs, epos)
  IN  /\ \A i \in OpensIn(evs, epos) :
           Cardinality({j \in 1..Len(tagStack) : tagStack[j].event = i})
             + Cardinality({j \in 1..Len(outElements) : outElements[j].event = i}) = 1
      /\ Len(outElements) = Len(closed)
      /\ \A k \in 1..Len(outElements) :
           /\ outElements[k].event = closed[k]
           /\ outElements[k].name = evs[closed[k]].name
      /\ \A a, b \in 1..Len(outElements) :
           (/\ outElements[a].event < outElements[b].event
            /\ MatchingClose(evs, outElements[b].event) < MatchingClose(evs, outElements[a].event))
             => b < a
      /\ Parsed => tagStack = <<>>
      /\ Parsed => Len(outElements) = Cardinality(OpensIn(evs, Len(evs)))
      /\ collectHeadings(outElements) = HeadingsByClose

C27_Witness ==
  /\ Parsed
  /\ \E a, b \in 1..Len(outElements) :
       /\ b < a
       /\ outElements[a].event < outElements[b].event
       /\ outElements[a].name = "h1"
       /\ outElements[b].name = "h2"
       /\ outElements[b].hasTextChildren
  /\ Len(collectHeadings(outElements)) = 2

\* ================================================================ template backend
\* the value of an attribute as the syntax tree holds it
AttrSrc(type, value) == [type |-> type, value |-> value]
StringLiteral(v) == AttrSrc("StringLiteral", v)
JSXExpressionContainer(v) == AttrSrc("JSXExpressionContainer", v)

\* an opening element with its attributes
JsxOpen(name, attrs) == [kind |-> "open", name |-> name, attrs |-> attrs]

\* attributes[attrName] of collectJSXElements
jsxAttributeValue(src) ==
  CASE src.type = "StringLiteral" -> src.value
    [] src.type = "JSXExpressionContainer" -> Expression
    [] OTHER -> BoolTrue

jsxAttributes(t) ==
  IF "attrs" \in DOMAIN t
  THEN [a \in DOMAIN t.attrs |-> jsxAttributeValue(t.attrs[a])]
  ELSE NoAttrs

\* the closing tag of the element opened by token j
CloseOf(doc, j) ==
  Min({i \in (j + 1)..Len(doc) :
         doc[i].kind = "close" /\ Depth(doc, i) = Depth(doc, j) - 1})

\* parent.children: the tokens that start a direct child of the element
ChildTokens(doc, j) ==
  {i \in (j + 1)..(CloseOf(doc, j) - 1) :
     doc[i].kind # "close" /\ Depth(doc, i - 1) = Depth(doc, j)}

\* children.some(JSXText with non-blank value, JSXExpressionContainer, JSXElement)
jsxHasTextChildren(doc, j) ==
  \E i \in ChildTokens(doc, j) : doc[i].kind \in {"text", "expr", "open"}

\* traverse(ast, {JSXOpeningElement}): one element per opening element, in
\* document order
RECURSIVE collectJSXElements(_, _)
collectJSXElements(doc, n) ==
  IF n = 0 THEN <<>>
  ELSE IF doc[n].kind = "open"
       THEN Append(collectJSXElements(doc, n - 1),
                   Element(doc[n].name, jsxAttributes(doc[n]), FALSE,
                           jsxHasTextChildren(doc, n), getLineFromIndex(n - 1)))
       ELSE collectJSXElements(doc, n - 1)

\* position in the element list of the element opened by token j
ElemIndex(doc, j) == Cardinality({i \in 1..j : doc[i].kind = "open"})

\* ---------------------------------------------------------------- the two backends on one markup
\* markup both backends read alike
CommonTokens ==
  {Tok("open", n) : n \in {"div", "span"}}
    \cup {Tok("close", ""), Tok("text", ""), Tok("space", ""), Tok("expr", "")}

InitBackends ==
  /\ FixIdle
  /\ ScanIdle
  /\ markup \in Documents(CommonTokens, MaxTokens)
  /\ epos = 0
  /\ currentIndex = 0
  /\ tagStack = <<>>
  /\ outElements = <<>>

SpecBackends == InitBackends /\ [][NextHtml]_vars

\* the element has a descendant that is non-blank text, an expression or an element
HasContent(doc, j) ==
  \E i \in (j + 1)..(CloseOf(doc, j) - 1) : doc[i].kind \in {"text", "expr", "open"}

\* C23: on the same markup both backends give every element the same
\* hasTextChildren, true whenever it has a descendant that is non-blank
\* text, an expression or another element; so an element whose only
\* content is a child element has it true under the hypertext backend too.
C23_BackendsAgree ==
  Parsed =>
    \A k \in 1..Len(outElements) :
      LET j == AllEvents[outElements[k].event].tok
          jsx == collectJSXElements(markup, Len(markup))[ElemIndex(markup, j)]
      IN  /\ outElements[k].hasTextChildren = jsx.hasTextChildren
          /\ outElements[k].hasTextChildren = HasContent(markup, j)

\* ---------------------------------------------------------------- analyzeFile on a component file
\* longest component source, in tokens
MaxJsxTokens == 4

TabIndex(src) == [a \in {"tabIndex"} |-> src]

JsxTokens ==
  {JsxOpen("button", <<>>), JsxOpen("svg", <<>>), JsxOpen("img", <<>>),
   JsxOpen("a", [a \in {"href"} |-> StringLiteral("/x")]),
   JsxOpen("div", TabIndex(JSXExpressionContainer("5"))),
   JsxOpen("div", TabIndex(JSXExpressionContainer("0"))),
   JsxOpen("div", TabIndex(StringLiteral("5"))),
   Tok("close", ""), Tok("text", ""), Tok("space", ""), Tok("expr", "")}

\* parseJSX and collectJSXElements of the file's content, then analyzeFile
InitJsx ==
  /\ FixIdle
  /\ markup \in Documents(JsxTokens, MaxJsxTokens)
  /\ epos = 0
  /\ currentIndex = 0
  /\ tagStack = <<>>
  /\ outElements = <<>>
  /\ command = "scan"
  /\ ruleIds = AllRules
  /\ files = <<File(TRUE, "jsx", TRUE, FALSE, collectJSXElements(markup, Len(markup)))>>
  /\ cpc = "analyse"
  /\ scanned = <<>>
  /\ exitCode = -1
  /\ usageError = FALSE
  /\ discovered = TRUE

SpecJsx == InitJsx /\ [][ScanFile]_vars

\* the tokens that open an element of the file
OpenTokens == {j \in 1..Len(markup) : markup[j].kind = "open"}

\* the file was analysed and the rule raised an issue on the element of token j
FlaggedAt(id, j) ==
  \E x \in 1..Len(scanned[1]) :
    scanned[1][x].ruleId = id /\ scanned[1][x].elem = ElemIndex(markup, j)

\* the element's content is one or more `icon` elements and blank text
IconOnly(doc, j, icon) ==
  /\ \E i \in ChildTokens(doc, j) : doc[i].kind = "open"
  /\ \A i \in ChildTokens(doc, j) :
       \/ doc[i].kind = "space"
       \/ doc[i].kind = "open" /\ doc[i].name = icon

\* C24: a button whose only content is an svg child and that has no
\* aria-label, aria-labelledby or title is flagged by button-content, and a
\* link with href whose only content is an img is flagged by anchor-content.
C24_IconOnlyFlagged ==
  Len(scanned) = 1 =>
    \A j \in OpenTokens :
      /\ (markup[j].name = "button" /\ IconOnly(markup, j, "svg"))
           => FlaggedAt("button-content", j)
      /\ (markup[j].name = "a" /\ IconOnly(markup, j, "img"))
           => FlaggedAt("anchor-content", j)

\* the tabIndex of token j is written as the expression {v}
TabIndexExpr(j, v) ==
  /\ "tabIndex" \in DOMAIN markup[j].attrs
  /\ markup[j].attrs["tabIndex"] = JSXExpressionContainer(v)

\* C25: in a component file tabindex-positive flags every element whose
\* tabIndex is a positive integer written as an expression (tabIndex={5})
\* and does not flag tabIndex={0}.
C25_ExpressionTabIndexFlagged ==
  Len(scanned) = 1 =>
    \A j \in OpenTokens :
      /\ TabIndexExpr(j, "5") => FlaggedAt("tabindex-positive", j)
      /\ TabIndexExpr(j, "0") => ~FlaggedAt("tabindex-positive", j)

\* ================================================================ rules on every kind of value
\* what an attribute's value can be: literal strings, the boolean presence
\* marker, the placeholder of a dynamic expression
ValueKinds == {"x", "", BoolTrue, Expression}

\* the attributes whose value a rule reads
ValueAttrs ==
  {"role", "tabindex", "tabIndex", "aria-hidden", "ariaHidden", "alt", "type",
   "href", "aria-label", "title", "disabled"}

ValueElements ==
  {Element(name, OneAttr(a, v), FALSE, text, 1) :
     name \in ElementNames, a \in ValueAttrs, v \in ValueKinds, text \in BOOLEAN}

ValueFiles == {File(TRUE, "jsx", TRUE, FALSE, <<el>>) : el \in ValueElements}

InitValues == AnalyzeInit(ValueFiles, {AllRules})

SpecValues == InitValues /\ [][ScanFile]_vars

\* C28: on an element whose attribute values are literal strings, the
\* boolean marker or the placeholder every rule's check returns an issue or
\* null and never raises; a value-less role attribute does not abort the
\* scan of its file.
C28_ChecksNeverRaise == cpc # "crashed"

\* ================================================================ termination of the fix phase
Probes == {i \in 1..Len(invs) : invs[i].kind = "probe"}
FixCalls(f) == {i \in 1..Len(invs) : invs[i].kind # "probe" /\ invs[i].file = f}

\* C29: with timers that fire, the fix phase terminates: an invocation is
\* settled once its deadline has passed, also when its subprocess never
\* exits, and autoFixAll returns its totals after at most one probe and, for
\* a file with n issues, at most n + 1 fix invocations.
C29_Terminates ==
  /\ <>(pc = "done")
  /\ [](\A i \in 1..Len(invs) : invs[i].timer = "fired" => invs[i].settled)
  /\ [](Cardinality(Probes) <= 1)
  /\ [](\A f \in 1..NumFiles : Cardinality(FixCalls(f)) <= issuesByFile[f] + 1)

C29_Witness ==
  /\ pc = "done"
  /\ \E i \in 1..Len(invs) :
       /\ invs[i].fate = "hangs"
       /\ invs[i].proc = "alive"
       /\ invs[i].signalled
       /\ invs[i].kind = "batch"
       /\ Cardinality(FixCalls(invs[i].file)) = issuesByFile[invs[i].file] + 1
  /\ returned.totalFixed + returned.totalFailed = TotalIssues

\* ---------------------------------------------------------------- agent unavailable
\* the exit status of a run that fixed every issue
AllFixedExit == processExit([totalFixed |-> TotalIssues, totalFailed |-> 0])

\* a fix invocation that was made and failed
FailedCalls ==
  {i \in 1..Len(invs) :
     invs[i].kind # "probe" /\ invs[i].settled /\ ~invs[i].result.success}

\* C30: with issues found and the agent unavailable the fix phase returns
\* totalFixed = 0 and totalFailed = 0 and the process exits with status 0,
\* the status of a run that fixed every issue; the fix phase gives a failing
\* status only when an invocation was made and failed.
C30_UnavailableExitsZero ==
  pc = "done" =>
    /\ GateFailed =>
         /\ TotalIssues > 0
         /\ returned = [totalFixed |-> 0, totalFailed |-> 0]
         /\ processExit(returned) = 0
         /\ processExit(returned) = AllFixedExit
         /\ FailedCalls = {}
    /\ processExit(returned) # 0 => FailedCalls # {}

\* the probe was spawned and failed, and the run with two issues or more
\* ended with nothing fixed and nothing failed
C30_Witness ==
  /\ pc = "done"
  /\ GateFailed
  /\ invs[1].proc # "none"
  /\ TotalIssues >= 2
  /\ returned.totalFixed = 0
  /\ processExit(returned) = 0
====
